---- MODULE Spec2Model ----
(***************************************************************************)
(* Model of src/generate_data.py: the customer profile generator, the      *)
(* transaction generator and the script that runs them and writes the two  *)
(* tables.                                                                 *)
(*                                                                         *)
(* Number representation.  Real-valued samples are fixed-point integers in *)
(* thousandths (5125 is 5.125); values the code rounds to two decimals are *)
(* integers in hundredths (512 is 5.12); probabilities are integers in     *)
(* hundredths (80 is 0.8).  Points in time are kept to the day: now is the *)
(* day the run takes place on (a run does not span midnight), and a        *)
(* timestamp is the day it falls on.                                       *)
(*                                                                         *)
(* Random stream.  numpy's generator is a deterministic function of its    *)
(* seed.  The stream is the variable tape, discovered lazily: the first    *)
(* read of a position picks any value the sampler can return and records   *)
(* it, a later read of the same position (after re-seeding with the same   *)
(* seed) returns the recorded value.  One position holds the block of      *)
(* draws of one loop iteration.                                            *)
(***************************************************************************)
EXTENDS Integers, Sequences, FiniteSets, TLC

VARIABLES
    pc,                        \* position of the script
    num_customers,             \* argument N of generate_telecom_customer_data
    transactions_per_customer, \* argument lambda of generate_transaction_data
    data,                      \* list built by generate_telecom_customer_data
    risk,                      \* per record: the locals churn_probability, fraud_probability and the two Bernoulli parameters
    customer_data,             \* table returned by generate_telecom_customer_data
    row,                       \* number of customer rows the outer loop has taken
    num_transactions,          \* count drawn for the current customer
    k,                         \* iterations of the inner loop done for the current customer
    counts,                    \* the counts drawn so far, in customer order
    transactions,              \* list built by generate_transaction_data
    transaction_data,          \* table returned by generate_transaction_data
    files,                     \* the two CSV files as last written
    tape,                      \* the random stream of the seed, as far as it is known
    pos,                       \* position of the generator in the stream
    now,                       \* the day datetime.now() falls on
    runs,                      \* completed runs of the script
    previous                   \* the files the previous run wrote

vars == << pc, num_customers, transactions_per_customer, data, risk, customer_data,
           row, num_transactions, k, counts, transactions, transaction_data, files,
           tape, pos, now, runs, previous >>

----------------------------------------------------------------------------
(* Bounds of the model *)

MaxN == 2          \* largest population size
MaxCount == 2      \* largest transaction count one Poisson draw returns
MaxNow == 1        \* latest day a run takes place on
MaxRuns == 2       \* runs of the script in the rerun specification

----------------------------------------------------------------------------
(* Arithmetic of the Python built-ins *)

Max(a, b) == IF a >= b THEN a ELSE b

Min(a, b) == IF a <= b THEN a ELSE b

\* int(x) of a float: truncation toward zero.  x in thousandths.
IntTrunc(x) == IF x >= 0 THEN x \div 1000 ELSE -((-x) \div 1000)

\* round(x, 2) of a non-negative float: x in thousandths, result in hundredths,
\* ties to the even neighbour.
Round2(x) ==
    LET q == x \div 10
        r == x % 10
    IN  IF r < 5 THEN q
        ELSE IF r > 5 THEN q + 1
        ELSE IF q % 2 = 0 THEN q ELSE q + 1

RECURSIVE Digits(_)
\* the decimal digits of a natural number, most significant first
Digits(n) == IF n < 10 THEN << n >> ELSE Append(Digits(n \div 10), n % 10)

RECURSIVE ZeroPad(_, _)
\* format spec 0<width>d: zeros on the left up to width, never truncating
ZeroPad(ds, width) == IF Len(ds) >= width THEN ds ELSE ZeroPad(<< 0 >> \o ds, width)

CustIdWidth == 6

TxnIdWidth == 8

\* CustomerId numbering from the loop index itself, not from i+1
CustomerIdFromIndex(i) == [prefix |-> "CUST_", digits |-> ZeroPad(Digits(i), CustIdWidth)]

\* f"CUST_{i+1:06d}"
CustomerId(i) == [prefix |-> "CUST_", digits |-> ZeroPad(Digits(i + 1), CustIdWidth)]

\* f"TXN_{len(transactions)+1:08d}"
TransactionId(n) == [prefix |-> "TXN_", digits |-> ZeroPad(Digits(n + 1), TxnIdWidth)]

\* np.random.binomial(1, p): one Bernoulli trial, decided by a uniform u in [0,1)
Bernoulli(u, p) == IF u < p THEN 1 ELSE 0

----------------------------------------------------------------------------
(* generate_telecom_customer_data: the computation of one record *)

\* ClampAge without the lower clamp
ClampAgeNoFloor(x) == Min(80, IntTrunc(x))

\* max(18, min(80, int(age)))
ClampAge(x) == Max(18, Min(80, IntTrunc(x)))

\* ClampAccountLength with the lower clamp at 0
ClampAccountLengthFromZero(x) == Max(0, Min(120, IntTrunc(x)))

\* max(1, min(120, int(account_length)))
ClampAccountLength(x) == Max(1, Min(120, IntTrunc(x)))

\* max(0, int(monthly_minutes))
MonthlyMinutes(x) == Max(0, IntTrunc(x))

\* round(max(0.1, monthly_data_gb), 2)
MonthlyDataGb(x) == Round2(Max(100, x))

\* MonthlyCharge with the SMS rate one decimal place off
MonthlyChargeSmsSlip(minutes, data_gb, sms) ==
    Round2(20000 + (minutes * 50) + (data_gb * 20) + (sms * 10))

\* round(20 + minutes*0.05 + data_gb*2 + sms*0.1, 2); data_gb in hundredths
MonthlyCharge(minutes, data_gb, sms) ==
    Round2(20000 + (minutes * 50) + (data_gb * 20) + (sms * 100))

\* the first Poisson draw, replaced by a second one for accounts younger than 6 months
LatePayments(account_length, first, second) ==
    IF account_length < 6 THEN second ELSE first

\* max(0, int(international_calls))
InternationalCalls(x) == Max(0, IntTrunc(x))

\* max(1, min(60, int(device_age_months)))
ClampDeviceAge(x) == Max(1, Min(60, IntTrunc(x)))

\* churn_probability as accumulated by the five risk factors; charge in hundredths
ChurnProbability(late_payments, customer_service_calls, monthly_charge, account_length, age) ==
    5 + (IF late_payments > 2 THEN 30 ELSE 0)
      + (IF customer_service_calls > 3 THEN 20 ELSE 0)
      + (IF monthly_charge > 8000 THEN 15 ELSE 0)
      + (IF account_length < 3 THEN 25 ELSE 0)
      + (IF age < 25 \/ age > 65 THEN 10 ELSE 0)

\* ChurnParameter without the cap
ChurnParameterUncapped(p) == p

\* min(churn_probability, 0.8)
ChurnParameter(p) == Min(p, 80)

\* fraud_probability as accumulated by the three risk factors
FraudProbability(international_calls, monthly_charge, account_length) ==
    2 + (IF international_calls > 10 THEN 10 ELSE 0)
      + (IF monthly_charge > 20000 THEN 15 ELSE 0)
      + (IF account_length < 1 THEN 20 ELSE 0)

\* min(fraud_probability, 0.3)
FraudParameter(p) == Min(p, 30)

\* the locals of one loop iteration that feed the two Bernoulli draws; s is the
\* block of samples the iteration draws
CustomerRisk(s) ==
    LET age == ClampAge(s.age)
        account_length == ClampAccountLength(s.account_length)
        monthly_minutes == MonthlyMinutes(s.monthly_minutes)
        monthly_data_gb == MonthlyDataGb(s.monthly_data_gb)
        monthly_charge == MonthlyCharge(monthly_minutes, monthly_data_gb, s.monthly_sms)
        late_payments == LatePayments(account_length, s.late_payments, s.late_payments_new)
        international_calls == InternationalCalls(s.international_calls)
        churn_probability == ChurnProbability(late_payments, s.customer_service_calls,
                                              monthly_charge, account_length, age)
        fraud_probability == FraudProbability(international_calls, monthly_charge,
                                              account_length)
    IN  [ churn_probability |-> churn_probability,
          churn_parameter   |-> ChurnParameter(churn_probability),
          fraud_probability |-> fraud_probability,
          fraud_parameter   |-> FraudParameter(fraud_probability) ]

\* the dict customer_data of iteration i (i counts from 0)
CustomerRecord(i, s) ==
    LET age == ClampAge(s.age)
        account_length == ClampAccountLength(s.account_length)
        monthly_minutes == MonthlyMinutes(s.monthly_minutes)
        monthly_data_gb == MonthlyDataGb(s.monthly_data_gb)
        r == CustomerRisk(s)
    IN  [ customer_id            |-> CustomerId(i),
          age                    |-> age,
          city                   |-> s.city,
          account_length_months  |-> account_length,
          contract_type          |-> s.contract_type,
          monthly_minutes        |-> monthly_minutes,
          monthly_data_gb        |-> monthly_data_gb,
          monthly_sms            |-> s.monthly_sms,
          monthly_charge         |-> MonthlyCharge(monthly_minutes, monthly_data_gb, s.monthly_sms),
          late_payments          |-> LatePayments(account_length, s.late_payments, s.late_payments_new),
          international_calls    |-> InternationalCalls(s.international_calls),
          customer_service_calls |-> s.customer_service_calls,
          device_age_months      |-> ClampDeviceAge(s.device_age_months),
          churned                |-> Bernoulli(s.churned, r.churn_parameter),
          is_fraud               |-> Bernoulli(s.is_fraud, r.fraud_parameter) ]

----------------------------------------------------------------------------
(* The values the samplers return.  normal: any real; exponential: a real  *)
(* >= 0; lognormal: a real > 0; poisson: a natural number; the uniform     *)
(* behind a Bernoulli trial: a real in [0,1).                              *)

AgeSamples == { -3700, 24999, 35000, 66000, 93200 }

AccountLengthSamples == { 400, 2999, 5999, 24000, 130500 }

MinutesSamples == { 700, 1200000, 4000100 }

DataGbSamples == { 37, 3456, 5125 }

SmsSamples == { 0, 50 }

LatePaymentSamples == { 0, 3 }

InternationalSamples == { 10999, 11000 }

ServiceCallSamples == { 3, 4 }

\* the three fields no other field depends on, sampled together: the contract
\* type, the device age (exponential) and the city
ContractDeviceCitySamples ==
    { [ contract_type |-> "Prepaid", device_age_months |-> 300, city |-> "Accra" ],
      [ contract_type |-> "Postpaid", device_age_months |-> 18500, city |-> "Kumasi" ],
      [ contract_type |-> "Prepaid", device_age_months |-> 75000, city |-> "Ho" ] }

ChurnUniforms == { 50, 80 }

FraudUniforms == { 1, 15 }

\* The second late-payment draw is only made for accounts younger than 6 months;
\* -1 marks a draw that is not made.
SecondLateSamples(account_length_sample) ==
    IF ClampAccountLength(account_length_sample) < 6 THEN LatePaymentSamples ELSE { -1 }

\* three blocks of samples for the runs of the whole script: an ordinary customer,
\* one with every risk factor, and a new young one
PipelineDraws ==
    { [ age |-> 35000, account_length |-> 24000, monthly_minutes |-> 1200000,
        monthly_data_gb |-> 3456, monthly_sms |-> 50, late_payments |-> 0,
        late_payments_new |-> -1, international_calls |-> 0,
        customer_service_calls |-> 3, contract_type |-> "Postpaid",
        device_age_months |-> 18500, churned |-> 50, is_fraud |-> 15, city |-> "Accra" ],
      [ age |-> 93200, account_length |-> 400, monthly_minutes |-> 4000100,
        monthly_data_gb |-> 37, monthly_sms |-> 0, late_payments |-> 0,
        late_payments_new |-> 3, international_calls |-> 11000,
        customer_service_calls |-> 4, contract_type |-> "Prepaid",
        device_age_months |-> 75000, churned |-> 50, is_fraud |-> 15, city |-> "Ho" ],
      [ age |-> -3700, account_length |-> 5999, monthly_minutes |-> 700,
        monthly_data_gb |-> 5125, monthly_sms |-> 50, late_payments |-> 3,
        late_payments_new |-> 0, international_calls |-> 10999,
        customer_service_calls |-> 3, contract_type |-> "Prepaid",
        device_age_months |-> 300, churned |-> 80, is_fraud |-> 1, city |-> "Kumasi" ] }

----------------------------------------------------------------------------
(* generate_transaction_data: the computation of one transaction *)

\* np.random.poisson(transactions_per_customer): mean 0 always returns 0
PoissonSamples(lam) == IF lam = 0 THEN { 0 } ELSE 0 .. MaxCount

\* blocks of samples one inner iteration can draw: a lognormal amount (> 0, either
\* parameter pair), randint(0, 90) and a type (every type has a positive weight in
\* both weight vectors)
TransactionDraws ==
    { [ amount |-> 346, days_ago |-> 0, transaction_type |-> "Voice_Call" ],
      [ amount |-> 54598, days_ago |-> 89, transaction_type |-> "International" ] }

\* max(1, round(amount, 2))
Amount(x) == Max(100, Round2(x))

\* datetime.now() - timedelta(days=days_ago)
Timestamp(t, days_ago) == t - days_ago

\* TransactionRecord numbering each customer's transactions from 1
TransactionRecordPerCustomer(customer, txs, s, t) ==
    [ customer_id      |-> customer.customer_id,
      transaction_id   |-> TransactionId(Cardinality({ j \in 1 .. Len(txs) :
                                txs[j].customer_id = customer.customer_id })),
      amount           |-> Amount(s.amount),
      transaction_type |-> s.transaction_type,
      timestamp        |-> Timestamp(t, s.days_ago),
      is_fraud         |-> customer.is_fraud ]

\* TransactionRecord deriving the label from the amount
TransactionRecordRelabelled(customer, txs, s, t) ==
    [ customer_id      |-> customer.customer_id,
      transaction_id   |-> TransactionId(Len(txs)),
      amount           |-> Amount(s.amount),
      transaction_type |-> s.transaction_type,
      timestamp        |-> Timestamp(t, s.days_ago),
      is_fraud         |-> IF Amount(s.amount) > 5000 THEN 1 ELSE 0 ]

\* the dict transaction: customer is the row of the outer loop, txs the list so far,
\* s the block of samples, t the clock value read
TransactionRecord(customer, txs, s, t) ==
    [ customer_id      |-> customer.customer_id,
      transaction_id   |-> TransactionId(Len(txs)),
      amount           |-> Amount(s.amount),
      transaction_type |-> s.transaction_type,
      timestamp        |-> Timestamp(t, s.days_ago),
      is_fraud         |-> customer.is_fraud ]

\* InnerLoopContinues running one iteration too many
InnerLoopOneMore(done, n) == done <= n

\* for _ in range(num_transactions): another iteration after done iterations
InnerLoopContinues(done, n) == done < n

----------------------------------------------------------------------------
(* The random stream *)

\* the values a read at the current position can return, S being the sampler's range
StreamChoices(S) == IF pos < Len(tape) THEN { tape[pos + 1] } ELSE S

\* the stream after the read returned v
StreamAfter(v) == IF pos < Len(tape) THEN tape ELSE Append(tape, v)

----------------------------------------------------------------------------
(* The script *)

NoFiles == [ written |-> FALSE, customers |-> << >>, transactions |-> << >> ]

Lambdas == { 0, 30 }

Init ==
    /\ pc = "start"
    /\ num_customers \in -1 .. MaxN
    /\ transactions_per_customer \in Lambdas
    /\ data = << >>
    /\ risk = << >>
    /\ customer_data = << >>
    /\ row = 0
    /\ num_transactions = 0
    /\ k = 0
    /\ counts = << >>
    /\ transactions = << >>
    /\ transaction_data = << >>
    /\ files = NoFiles
    /\ tape = << >>
    /\ pos = 0
    /\ now = 0
    /\ runs = 0
    /\ previous = NoFiles

\* generate_telecom_customer_data is entered: np.random.seed(42); data = []
CallGenerateCustomers ==
    /\ pc = "start"
    /\ pc' = "customers"
    /\ pos' = 0
    /\ data' = << >>
    /\ risk' = << >>
    /\ UNCHANGED << num_customers, transactions_per_customer, customer_data, row,
                    num_transactions, k, counts, transactions, transaction_data,
                    files, tape, now, runs, previous >>

\* for i in range(num_customers): another iteration is due
CustomerLoopContinues == pc = "customers" /\ Len(data) < num_customers

\* one iteration of for i in range(num_customers), s being the block of samples
\* the stream holds at the current position
CustomerStep(s) ==
    /\ data' = Append(data, CustomerRecord(Len(data), s))
    /\ risk' = Append(risk, CustomerRisk(s))
    /\ tape' = StreamAfter(s)
    /\ pos' = pos + 1
    /\ UNCHANGED << pc, num_customers, transactions_per_customer, customer_data, row,
                    num_transactions, k, counts, transactions, transaction_data,
                    files, now, runs, previous >>

CustomerIteration ==
    /\ CustomerLoopContinues
    /\ \E s \in StreamChoices(PipelineDraws) : CustomerStep(s)

\* the loop is over (at once when num_customers <= 0): return pd.DataFrame(data),
\* and generate_transaction_data is entered with it: transactions = []
ReturnCustomers ==
    /\ pc = "customers"
    /\ Len(data) >= num_customers
    /\ customer_data' = data
    /\ pc' = "transactions"
    /\ transactions' = << >>
    /\ counts' = << >>
    /\ row' = 0
    /\ UNCHANGED << num_customers, transactions_per_customer, data, risk,
                    num_transactions, k, transaction_data, files, tape, pos, now,
                    runs, previous >>

\* the outer loop takes the next row and draws its transaction count
NextCustomerRow ==
    /\ pc = "transactions"
    /\ row < Len(customer_data)
    /\ \E n \in StreamChoices({ [ num_transactions |-> c ] :
                                  c \in PoissonSamples(transactions_per_customer) }) :
          /\ num_transactions' = n.num_transactions
          /\ counts' = Append(counts, n.num_transactions)
          /\ tape' = StreamAfter(n)
    /\ pos' = pos + 1
    /\ row' = row + 1
    /\ k' = 0
    /\ pc' = "inner"
    /\ UNCHANGED << num_customers, transactions_per_customer, data, risk, customer_data,
                    transactions, transaction_data, files, now, runs, previous >>

\* one iteration of the inner loop: one transaction of the current customer
TransactionIteration ==
    /\ pc = "inner"
    /\ InnerLoopContinues(k, num_transactions)
    /\ \E s \in StreamChoices(TransactionDraws) :
          /\ transactions' =
                Append(transactions,
                       TransactionRecord(customer_data[row], transactions, s, now))
          /\ tape' = StreamAfter(s)
    /\ pos' = pos + 1
    /\ k' = k + 1
    /\ UNCHANGED << pc, num_customers, transactions_per_customer, data, risk,
                    customer_data, row, num_transactions, counts, transaction_data,
                    files, now, runs, previous >>

\* the inner loop is over: back to the outer loop
InnerLoopEnds ==
    /\ pc = "inner"
    /\ ~ InnerLoopContinues(k, num_transactions)
    /\ pc' = "transactions"
    /\ UNCHANGED << num_customers, transactions_per_customer, data, risk, customer_data,
                    row, num_transactions, k, counts, transactions, transaction_data,
                    files, tape, pos, now, runs, previous >>

\* the outer loop is over: return pd.DataFrame(transactions)
ReturnTransactions ==
    /\ pc = "transactions"
    /\ row >= Len(customer_data)
    /\ transaction_data' = transactions
    /\ pc' = "save"
    /\ UNCHANGED << num_customers, transactions_per_customer, data, risk, customer_data,
                    row, num_transactions, k, counts, transactions, files, tape, pos,
                    now, runs, previous >>

\* customer_data.to_csv(...); transaction_data.to_csv(...)
SaveFiles ==
    /\ pc = "save"
    /\ files' = [ written |-> TRUE, customers |-> customer_data,
                  transactions |-> transaction_data ]
    /\ pc' = "done"
    /\ UNCHANGED << num_customers, transactions_per_customer, data, risk, customer_data,
                    row, num_transactions, k, counts, transactions, transaction_data,
                    tape, pos, now, runs, previous >>

\* the script is run again with the same arguments, on the same or a later day
RunAgain ==
    /\ pc = "done"
    /\ runs + 1 < MaxRuns
    /\ runs' = runs + 1
    /\ previous' = files
    /\ \E t \in now .. MaxNow : now' = t
    /\ pc' = "start"
    /\ data' = << >>
    /\ risk' = << >>
    /\ customer_data' = << >>
    /\ row' = 0
    /\ num_transactions' = 0
    /\ k' = 0
    /\ counts' = << >>
    /\ transactions' = << >>
    /\ transaction_data' = << >>
    /\ files' = NoFiles
    /\ UNCHANGED << num_customers, transactions_per_customer, tape, pos >>

\* one run of the script
Next ==
    \/ CallGenerateCustomers
    \/ CustomerIteration
    \/ ReturnCustomers
    \/ NextCustomerRow
    \/ TransactionIteration
    \/ InnerLoopEnds
    \/ ReturnTransactions
    \/ SaveFiles

Spec == Init /\ [][Next]_vars

\* the script run, and run again
NextRerun == Next \/ RunAgain

SpecRerun == Init /\ [][NextRerun]_vars

\* generate_telecom_customer_data alone, for every positive population size
InitProfile ==
    /\ Init
    /\ num_customers >= 1
    /\ transactions_per_customer = 30

\* one iteration with its samples from every combination of the sample sets
FullIteration ==
    \E a \in AgeSamples, al \in AccountLengthSamples, mm \in MinutesSamples,
       gb \in DataGbSamples, sms \in SmsSamples, lp \in LatePaymentSamples,
       ic \in InternationalSamples, cs \in ServiceCallSamples,
       cd \in ContractDeviceCitySamples, cu \in ChurnUniforms, fu \in FraudUniforms :
       \E lp2 \in SecondLateSamples(al) :
          \E s \in StreamChoices({
                 [ age |-> a, account_length |-> al, monthly_minutes |-> mm,
                   monthly_data_gb |-> gb, monthly_sms |-> sms, late_payments |-> lp,
                   late_payments_new |-> lp2, international_calls |-> ic,
                   customer_service_calls |-> cs, contract_type |-> cd.contract_type,
                   device_age_months |-> cd.device_age_months,
                   churned |-> cu, is_fraud |-> fu, city |-> cd.city ] }) :
             CustomerStep(s)

\* one iteration of the loop: the last record of the table ranges over the whole
\* sample space, the records before it over the three blocks of PipelineDraws
ProfileIteration ==
    /\ CustomerLoopContinues
    /\ IF Len(data) + 1 < num_customers
         THEN \E s \in StreamChoices(PipelineDraws) : CustomerStep(s)
         ELSE FullIteration

NextProfile ==
    \/ CallGenerateCustomers
    \/ ProfileIteration
    \/ ReturnCustomers

SpecProfile == InitProfile /\ [][NextProfile]_vars

----------------------------------------------------------------------------
(* Properties *)

RECURSIVE DigitsValue(_)
\* the number a digit string denotes
DigitsValue(ds) ==
    IF Len(ds) = 0 THEN 0
    ELSE 10 * DigitsValue(SubSeq(ds, 1, Len(ds) - 1)) + ds[Len(ds)]

RECURSIVE SumTo(_, _)
\* the sum of the first n elements of a sequence of numbers
SumTo(seq, n) == IF n = 0 THEN 0 ELSE SumTo(seq, n - 1) + seq[n]

\* the records of the customer loop are complete and handed on
CustomersReturned == pc \in { "transactions", "inner", "save", "done" }

\* C1: for a positive population size N the customer table has exactly N records,
\* the j-th record built carries CUST_ followed by j as six digits, and the
\* identifiers are pairwise distinct.
C1_SequentialCustomerIds ==
    /\ \A j \in 1 .. Len(data) :
          /\ data[j].customer_id.prefix = "CUST_"
          /\ Len(data[j].customer_id.digits) = 6
          /\ \A d \in 1 .. 6 : data[j].customer_id.digits[d] \in 0 .. 9
          /\ DigitsValue(data[j].customer_id.digits) = j
    /\ \A a, b \in 1 .. Len(data) :
          a # b => data[a].customer_id # data[b].customer_id
    /\ (CustomersReturned /\ num_customers > 0) =>
          /\ Len(customer_data) = num_customers
          /\ customer_data = data

C1_Witness ==
    /\ pc = "done"
    /\ num_customers >= 2
    /\ Len(files.customers) = num_customers

\* C2: transaction identifiers are pairwise distinct and strictly increasing in
\* generation order, across customers.
C2_TransactionIdsIncrease ==
    \A a, b \in 1 .. Len(transactions) :
        a < b =>
          /\ transactions[a].transaction_id # transactions[b].transaction_id
          /\ DigitsValue(transactions[a].transaction_id.digits)
                < DigitsValue(transactions[b].transaction_id.digits)

C2_Witness ==
    /\ pc = "done"
    /\ \E a, b \in 1 .. Len(transactions) :
          /\ a + 1 < b
          /\ transactions[a].customer_id # transactions[b].customer_id

\* C3: every transaction names a customer of the customer table and carries that
\* customer's is_fraud.
C3_TransactionsReferenceCustomers ==
    \A t \in 1 .. Len(transactions) :
        /\ \E c \in 1 .. Len(customer_data) :
              customer_data[c].customer_id = transactions[t].customer_id
        /\ \A c \in 1 .. Len(customer_data) :
              customer_data[c].customer_id = transactions[t].customer_id
                 => transactions[t].is_fraud = customer_data[c].is_fraud

C3_Witness ==
    /\ pc = "done"
    /\ \E a, b \in 1 .. Len(transaction_data) :
          /\ transaction_data[a].is_fraud = 1
          /\ transaction_data[a].amount <= 5000
          /\ transaction_data[b].is_fraud = 0
          /\ transaction_data[b].amount > 5000

\* C4: in every record age is in 18..80, account_length_months in 1..120,
\* device_age_months in 1..60, monthly_data_gb at least 0.1, the five counts are
\* natural numbers, and churned and is_fraud are 0 or 1.
C4_FieldsInRange ==
    \A j \in 1 .. Len(data) :
        /\ data[j].age \in 18 .. 80
        /\ data[j].account_length_months \in 1 .. 120
        /\ data[j].device_age_months \in 1 .. 60
        /\ data[j].monthly_data_gb >= 10
        /\ data[j].monthly_minutes \in Nat
        /\ data[j].monthly_sms \in Nat
        /\ data[j].international_calls \in Nat
        /\ data[j].customer_service_calls \in Nat
        /\ data[j].late_payments \in Nat
        /\ data[j].churned \in { 0, 1 }
        /\ data[j].is_fraud \in { 0, 1 }

\* a record built from samples outside the ranges on both sides
C4_Witness ==
    \E j \in 1 .. Len(data) :
        /\ tape[j].age < 18000
        /\ tape[j].account_length > 121000
        /\ tape[j].device_age_months < 1000
        /\ tape[j].monthly_data_gb < 100
        /\ tape[j].monthly_minutes < 1000
        /\ data[j].age = 18
        /\ data[j].account_length_months = 120
        /\ data[j].device_age_months = 1

\* C5: in every record monthly_charge is 20 + 0.05*monthly_minutes +
\* 2*monthly_data_gb + 0.1*monthly_sms of the stored usage fields (in hundredths:
\* 2000 + 5*minutes + 2*data_gb + 10*sms, which has no third decimal to round).
C5_ChargeFromStoredUsage ==
    \A j \in 1 .. Len(data) :
        data[j].monthly_charge =
            2000 + (5 * data[j].monthly_minutes) + (2 * data[j].monthly_data_gb)
                 + (10 * data[j].monthly_sms)

\* a record whose three usage fields all count, the data volume rounded on storing
C5_Witness ==
    \E j \in 1 .. Len(data) :
        /\ data[j].monthly_minutes > 0
        /\ data[j].monthly_sms > 0
        /\ tape[j].monthly_data_gb = 3456
        /\ data[j].monthly_data_gb = 346

\* the churn risk formula on the stored fields of a record
ExpectedChurnParameter(c) ==
    LET total == 5 + (IF c.late_payments > 2 THEN 30 ELSE 0)
                   + (IF c.customer_service_calls > 3 THEN 20 ELSE 0)
                   + (IF c.monthly_charge > 8000 THEN 15 ELSE 0)
                   + (IF c.account_length_months < 3 THEN 25 ELSE 0)
                   + (IF c.age < 25 \/ c.age > 65 THEN 10 ELSE 0)
    IN  IF total > 80 THEN 80 ELSE total

\* C8: the parameter of the Bernoulli draw behind churned is the capped sum of the
\* risk increments of the record's own stored fields, lies in [0.05, 0.8], and
\* churned is the outcome of the draw with that parameter.
C8_ChurnParameter ==
    \A j \in 1 .. Len(data) :
        /\ risk[j].churn_parameter = ExpectedChurnParameter(data[j])
        /\ risk[j].churn_parameter \in 5 .. 80
        /\ data[j].churned = 1 <=> tape[j].churned < ExpectedChurnParameter(data[j])

\* a record after another customer's, its increments adding up to more than the cap
C8_Witness ==
    /\ \E j \in 2 .. Len(data) :
          /\ risk[j].churn_probability = 105
          /\ risk[j].churn_parameter = 80
          /\ data[j].late_payments > 2
          /\ data[j].account_length_months < 3
          /\ data[j].churned = 1

\* C10: account_length is at least 1 when the fraud rule tests it, so the +0.20
\* increment is never applied: fraud_probability is 0.02, 0.12, 0.17 or 0.27 and
\* the cap of 0.3 leaves it as it is.
C10_FraudIncrementUnreachable ==
    \A j \in 1 .. Len(data) :
        /\ data[j].account_length_months >= 1
        /\ risk[j].fraud_probability \in { 2, 12, 17, 27 }
        /\ risk[j].fraud_parameter = risk[j].fraud_probability

\* an account sampled shorter than one month, with both other increments applied
C10_Witness ==
    \E j \in 1 .. Len(data) :
        /\ tape[j].account_length < 1000
        /\ data[j].account_length_months = 1
        /\ data[j].international_calls > 10
        /\ data[j].monthly_charge > 20000
        /\ risk[j].fraud_probability = 27

\* C9: the transaction table is as long as the sum of the counts drawn, the k-th
\* transaction carries sequence number k, and the transactions of the c-th
\* customer are the block after those of the customers before it; a count of 0
\* leaves no transaction and uses no number.
C9_BlocksInCustomerOrder ==
    pc \in { "save", "done" } =>
        /\ Len(counts) = Len(customer_data)
        /\ Len(transaction_data) = SumTo(counts, Len(counts))
        /\ \A t \in 1 .. Len(transaction_data) :
              DigitsValue(transaction_data[t].transaction_id.digits) = t
        /\ \A c \in 1 .. Len(counts) :
              \A t \in (SumTo(counts, c - 1) + 1) .. SumTo(counts, c) :
                  transaction_data[t].customer_id = customer_data[c].customer_id

\* a customer without transactions followed by one with two
C9_Witness ==
    /\ pc = "done"
    /\ \E c \in 1 .. Len(counts) :
          /\ counts[c] = 0
          /\ c < Len(counts)
          /\ counts[c + 1] = 2
    /\ Len(files.transactions) = 2

\* C7: with a population size of zero or less nothing is drawn, no record is
\* built, and neither the transaction stage nor the writer is reached.
C7_InvalidSizeStopsTheRun ==
    num_customers <= 0 =>
        /\ pos = 0
        /\ data = << >>
        /\ ~ CustomersReturned
        /\ ~ files.written

\* C6: a second run with the same arguments writes the same two tables as the
\* first, whatever day it takes place on.
C6_RunsWriteSameTables ==
    (pc = "done" /\ runs >= 1) => files = previous

====
